---- MODULE Spec2Model ----
(***************************************************************************)
(* Window / view / render-graph lifecycle and the frame loop of            *)
(* rocky_vsg's Application (src/src/rocky_vsg/Application.cpp).            *)
(*                                                                         *)
(* Objects are identified by small integers: a window by the (arbitrary)   *)
(* address it is allocated at, which is also the key order of the          *)
(* std::map containers; a command graph by the window it was created for;  *)
(* a render graph by its creation index; a manipulator by its creation     *)
(* index.                                                                  *)
(***************************************************************************)
EXTENDS Integers, Sequences, FiniteSets, TLC

\* ---------------------------------------------------------------- bounds
MaxWindows == 2
MaxUserViews == 2
MaxCalls == 2
MaxMicros == 1

\* ------------------------------------------------------------- identities
Null == 0
AppWindows == 1 .. MaxWindows
ForeignWindow == MaxWindows + 1
UserViews == 1 .. MaxUserViews
NoCameraView == MaxUserViews + 1
DefaultView(w) == NoCameraView + w
DefaultViews == {DefaultView(w) : w \in AppWindows}
AllViews == UserViews \cup {NoCameraView} \cup DefaultViews
UserRenderGraph == Null - 1
\* A viewport stands for each of the four floats x, y, width, height of a
\* VkViewport, counted in PixelFractions-ths of a pixel; a render area for each
\* of the four unsigned integers of a VkRect2D, in pixels.
PixelFractions == 2
DefaultViewport == 0
Viewports == {DefaultViewport, PixelFractions, PixelFractions + 1}
\* (std::uint32_t) of a float that is not negative: the fraction is dropped
uint32_t(vp) == vp \div PixelFractions

VARIABLES
    viewerRealized,             \* Application::_viewerRealized
    viewerDirty,                \* Application::_viewerDirty
    viewerWindows,              \* viewer->windows()
    eventHandlers,              \* viewer->getEventHandlers()
    assignedCommandGraphs,      \* graphs bound by assignRecordAndSubmitTaskAndPresentation
    commandGraphByWindow,       \* Application::_commandGraphByWindow
    children,                   \* commandgraph->children, per command graph
    viewData,                   \* Application::_viewData (parentRenderGraph)
    displayConfiguration,       \* Application::displayConfiguration.windows
    manipulatorOf,              \* object stored on a view under MapManipulator::tag
    renderGraphs,               \* render graphs created so far: (window, view, renderArea)
    viewport,                   \* view->camera->getViewport(), per view
    manipulators,               \* number of MapManipulator objects created
    supportMultiThreadedRecord, \* mapNode->terrainSettings().supportMultiThreadedRecord
    updateOperations,           \* queue behind runDuringUpdate / viewer->update()
    futures,                    \* Future objects handed back by addWindow / addView
    log,                        \* events of the last top-level call, in order
    executed,                   \* ids of the queued operations executed so far
    requested,                  \* number of operations queued so far
    rebuilds,                   \* number of recreateViewer() calls so far
    realizes,                   \* number of times the body of realize() ran
    stats,                      \* Application::stats, in whole microseconds
    running,                    \* the caller is inside Application::run()
    last,                       \* the last top-level call and what it returned
    calls,                      \* number of API calls made (bounded by MaxCalls)
    userViews                   \* number of vsg::View objects the caller has created

vars == << viewerRealized, viewerDirty, viewerWindows, eventHandlers,
           assignedCommandGraphs, commandGraphByWindow, children, viewData,
           displayConfiguration, manipulatorOf, renderGraphs, viewport,
           manipulators, supportMultiThreadedRecord, updateOperations, futures, log,
           executed, requested, rebuilds, realizes, stats, running, last, calls,
           userViews >>

\* The application state as one record, so that the bodies of the member
\* functions compose the way the calls in the source do.
State ==
    [ viewerRealized |-> viewerRealized, viewerDirty |-> viewerDirty,
      viewerWindows |-> viewerWindows, eventHandlers |-> eventHandlers,
      assignedCommandGraphs |-> assignedCommandGraphs,
      commandGraphByWindow |-> commandGraphByWindow, children |-> children,
      viewData |-> viewData, displayConfiguration |-> displayConfiguration,
      manipulatorOf |-> manipulatorOf, renderGraphs |-> renderGraphs,
      viewport |-> viewport,
      manipulators |-> manipulators,
      supportMultiThreadedRecord |-> supportMultiThreadedRecord,
      updateOperations |-> updateOperations, futures |-> futures, log |-> log,
      executed |-> executed, requested |-> requested, rebuilds |-> rebuilds,
      realizes |-> realizes, stats |-> stats, last |-> last ]

Commit(S) ==
    /\ viewerRealized' = S.viewerRealized
    /\ viewerDirty' = S.viewerDirty
    /\ viewerWindows' = S.viewerWindows
    /\ eventHandlers' = S.eventHandlers
    /\ assignedCommandGraphs' = S.assignedCommandGraphs
    /\ commandGraphByWindow' = S.commandGraphByWindow
    /\ children' = S.children
    /\ viewData' = S.viewData
    /\ displayConfiguration' = S.displayConfiguration
    /\ manipulatorOf' = S.manipulatorOf
    /\ renderGraphs' = S.renderGraphs
    /\ viewport' = S.viewport
    /\ manipulators' = S.manipulators
    /\ supportMultiThreadedRecord' = S.supportMultiThreadedRecord
    /\ updateOperations' = S.updateOperations
    /\ futures' = S.futures
    /\ log' = S.log
    /\ executed' = S.executed
    /\ requested' = S.requested
    /\ rebuilds' = S.rebuilds
    /\ realizes' = S.realizes
    /\ stats' = S.stats
    /\ last' = S.last

\* ------------------------------------------------------- sequence helpers
Range(s) == {s[i] : i \in DOMAIN s}
Reverse(s) == [i \in 1 .. Len(s) |-> s[Len(s) + 1 - i]]
Without(s, x) == SelectSeq(s, LAMBDA e : e # x)
Count(s, x) == Cardinality({i \in DOMAIN s : s[i] = x})
Event(S, e) == [S EXCEPT !.log = Append(@, e)]

\* The addresses the allocator may hand out, in order, to the next n windows.
AllocOrders(free, n) ==
    {a \in [1 .. n -> free] : \A i, j \in 1 .. n : a[i] = a[j] => i = j}

\* ------------------------------------------------------------ util::Future
NewFuture(kind, window, view, onCreate) ==
    [ kind |-> kind, window |-> window, view |-> view, rejected |-> FALSE,
      deferred |-> FALSE, op |-> 0, value |-> Null, resolves |-> 0,
      onCreate |-> onCreate, created |-> 0, createdWith |-> Null ]

\* Future::resolve(value); fut = 0 stands for a Future nobody keeps.
Resolve(S, fut, value) ==
    IF fut = 0 THEN S
    ELSE [S EXCEPT !.futures[fut].value = value, !.futures[fut].resolves = @ + 1]

\* if (on_create) on_create(commandgraph.get());
OnCreate(S, fut, commandgraph) ==
    IF fut = 0 \/ ~S.futures[fut].onCreate THEN S
    ELSE [S EXCEPT !.futures[fut].created = @ + 1,
                   !.futures[fut].createdWith = commandgraph]

\* ------------------------------------------------------------- containers
\* std::map::operator[] followed by emplace_back
MapAppend(m, k, v) ==
    [x \in DOMAIN m \cup {k} |->
        IF x = k THEN (IF k \in DOMAIN m THEN Append(m[k], v) ELSE << v >>) ELSE m[x]]

\* std::map::operator[] followed by assignment
MapPut(m, k, v) == [x \in DOMAIN m \cup {k} |-> IF x = k THEN v ELSE m[x]]

\* std::map::erase(key)
MapErase(m, k) == [x \in DOMAIN m \ {k} |-> m[x]]

\* vsg::Window::create: the address is the first one the allocator has free
NewWindow(S, alloc) ==
    alloc[CHOOSE i \in 1 .. Len(alloc) :
            /\ alloc[i] \notin DOMAIN S.commandGraphByWindow
            /\ \A j \in 1 .. (i - 1) : alloc[j] \in DOMAIN S.commandGraphByWindow]

\* ----------------------------------------------------------------- lookups
getCommandGraph(S, window) ==
    IF window \in DOMAIN S.commandGraphByWindow
    THEN S.commandGraphByWindow[window] ELSE Null

getWindow(S, view) ==
    LET holders == {w \in DOMAIN S.displayConfiguration :
                        view \in Range(S.displayConfiguration[w])}
    IN  IF holders = {} THEN Null
        ELSE CHOOSE w \in holders : \A x \in holders : w <= x

\* ------------------------------------------------------------ manipulators
ManipulatorHandler(manip, view) ==
    IF manip[view] = Null THEN [kind |-> "null", id |-> 0, view |-> Null]
    ELSE [kind |-> "manipulator", id |-> manip[view], view |-> view]

RECURSIVE ManipulatorsInOrder(_, _, _)
ManipulatorsInOrder(dc, manip, w) ==
    IF w > MaxWindows THEN << >>
    ELSE (IF w \in DOMAIN dc
          THEN [i \in 1 .. Len(dc[w]) |-> ManipulatorHandler(manip, Reverse(dc[w])[i])]
          ELSE << >>)
         \o ManipulatorsInOrder(dc, manip, w + 1)

addManipulator(S, window, view) ==
    LET manip == S.manipulators + 1
        stowed == [S.manipulatorOf EXCEPT ![view] = manip]
        kept == SelectSeq(S.eventHandlers, LAMBDA h : h.kind # "manipulator")
    IN  [S EXCEPT !.manipulators = manip,
                  !.manipulatorOf = stowed,
                  !.eventHandlers =
                      kept \o ManipulatorsInOrder(S.displayConfiguration, stowed, 1)]

\* -------------------------------------------------------------- activation
activateRenderGraph(S, renderGraph, window) == Event(S, "activateRenderGraph")

\* ------------------------------------------------------------------- views
\* the render graph created for (window, view), appended to the command graph
\* and recorded in _viewData and displayConfiguration
AttachRenderGraph(S, window, view, activate) ==
    LET rendergraph == Len(S.renderGraphs) + 1
        commandgraph == S.commandGraphByWindow[window]
        S1 == [S EXCEPT !.renderGraphs = Append(@, [window |-> window, view |-> view,
                                                      renderArea |-> uint32_t(S.viewport[view])]),
                        !.children[commandgraph] = Append(@, rendergraph),
                        !.log = Append(@, "children")]
        S2 == IF activate THEN activateRenderGraph(S1, rendergraph, window) ELSE S1
    IN  [S2 EXCEPT !.viewData = MapPut(@, view, rendergraph),
                   !.displayConfiguration = MapAppend(@, window, view),
                   !.log = @ \o << "viewData", "displayConfiguration" >>]

\* mutant: before realization the view is put in front of the window's views
addViewBeforeViewerIsRealized_Front(S, window, view, fut) ==
    LET commandgraph == getCommandGraph(S, window)
        S0 == IF commandgraph # Null
              THEN AttachRenderGraph(S, window, view, FALSE) ELSE S
        S1 == IF commandgraph # Null
              THEN [S0 EXCEPT !.displayConfiguration[window] =
                                    << view >> \o SubSeq(@, 1, Len(@) - 1)]
              ELSE S0
    IN  OnCreate(Resolve(S1, fut, view), fut, commandgraph)

\* Application::addView, the branch taken before realization
addViewBeforeViewerIsRealized(S, window, view, fut) ==
    LET commandgraph == getCommandGraph(S, window)
        S1 == IF commandgraph # Null
              THEN AttachRenderGraph(S, window, view, FALSE) ELSE S
    IN  OnCreate(Resolve(S1, fut, view), fut, commandgraph)

\* mutant: the deferred path forgets result.resolve(view)
addViewAfterViewerIsRealized_NoResolve(S, window, view, fut) ==
    LET S0 == Event(S, "deviceWaitIdle")
        commandgraph == getCommandGraph(S0, window)
        S1 == IF commandgraph # Null
              THEN addManipulator(AttachRenderGraph(S0, window, view, TRUE), window, view)
              ELSE S0
    IN  OnCreate(S1, fut, commandgraph)

addViewAfterViewerIsRealized(S, window, view, fut) ==
    LET S0 == Event(S, "deviceWaitIdle")
        commandgraph == getCommandGraph(S0, window)
        S1 == IF commandgraph # Null
              THEN addManipulator(AttachRenderGraph(S0, window, view, TRUE), window, view)
              ELSE S0
    IN  Resolve(OnCreate(S1, fut, commandgraph), fut, view)

\* ROCKY_SOFT_ASSERT_AND_RETURN(expr, ...): the failure is logged, then return
SoftAssert(S, expr) == Event(S, expr)

\* mutant: the view's bookkeeping is dropped before the window is looked up
remove_EraseFirst(S, view) ==
    LET S0 == Event(S, "deviceWaitIdle")
        window == getWindow(S0, view)
        commandgraph == getCommandGraph(S0, window)
        S1 == [S0 EXCEPT !.viewData = MapErase(@, view), !.log = Append(@, "viewData")]
    IN  IF window = Null THEN SoftAssert(S1, "assert window != nullptr")
        ELSE IF commandgraph = Null THEN SoftAssert(S1, "assert commandgraph")
        ELSE IF view \notin DOMAIN S0.viewData
        THEN SoftAssert(S1, "assert vd != _viewData.end()")
        ELSE [S1 EXCEPT !.children[commandgraph] = Without(@, S0.viewData[view]),
                        !.displayConfiguration[window] = Without(@, view),
                        !.log = @ \o << "children", "displayConfiguration" >>]

\* mutant: a window whose last view is removed loses its Display Configuration entry
remove_DropEmptyWindow(S, view) ==
    LET S0 == Event(S, "deviceWaitIdle")
        window == getWindow(S0, view)
        commandgraph == getCommandGraph(S0, window)
    IN  IF window = Null THEN SoftAssert(S0, "assert window != nullptr")
        ELSE IF commandgraph = Null THEN SoftAssert(S0, "assert commandgraph")
        ELSE IF view \notin DOMAIN S0.viewData
        THEN SoftAssert(S0, "assert vd != _viewData.end()")
        ELSE [S0 EXCEPT !.children[commandgraph] = Without(@, S0.viewData[view]),
                        !.viewData = MapErase(@, view),
                        !.displayConfiguration =
                            IF Without(@[window], view) = << >> THEN MapErase(@, window)
                            ELSE MapPut(@, window, Without(@[window], view)),
                        !.log = @ \o << "children", "viewData", "displayConfiguration" >>]

\* the lambda `remove` of Application::removeView
remove(S, view) ==
    LET S0 == Event(S, "deviceWaitIdle")
        window == getWindow(S0, view)
        commandgraph == getCommandGraph(S0, window)
    IN  IF window = Null THEN SoftAssert(S0, "assert window != nullptr")
        ELSE IF commandgraph = Null THEN SoftAssert(S0, "assert commandgraph")
        ELSE IF view \notin DOMAIN S0.viewData
        THEN SoftAssert(S0, "assert vd != _viewData.end()")
        ELSE [S0 EXCEPT !.children[commandgraph] = Without(@, S0.viewData[view]),
                        !.viewData = MapErase(@, view),
                        !.displayConfiguration[window] = Without(@, view),
                        !.log = @ \o << "children", "viewData", "displayConfiguration" >>]

\* mutant: the render area is left as it was, only the pipelines are rebuilt
refresh_KeepRenderArea(S, view) ==
    IF view = Null THEN SoftAssert(S, "assert view")
    ELSE LET S1 == IF view \in DOMAIN S.viewData THEN S
                   ELSE [S EXCEPT !.viewData = MapPut(@, view, Null),
                                  !.log = Append(@, "viewData")]
         IN  IF S1.viewData[view] = Null
             THEN SoftAssert(S1, "assert viewdata.parentRenderGraph")
             ELSE [S1 EXCEPT !.log = @ \o << "deviceWaitIdle", "UpdateGraphicsPipelines" >>]

\* the lambda `refresh` of Application::refreshView
refresh(S, view) ==
    IF view = Null THEN SoftAssert(S, "assert view")
    ELSE LET S1 == IF view \in DOMAIN S.viewData THEN S
                   ELSE [S EXCEPT !.viewData = MapPut(@, view, Null),
                                  !.log = Append(@, "viewData")]
         IN  IF S1.viewData[view] = Null
             THEN SoftAssert(S1, "assert viewdata.parentRenderGraph")
             ELSE [S1 EXCEPT !.renderGraphs[S1.viewData[view]].renderArea =
                                    uint32_t(S1.viewport[view]),
                             !.log = @ \o << "deviceWaitIdle", "renderArea",
                                            "UpdateGraphicsPipelines" >>]

\* the lambda `func` of Application::addPreRenderGraph
func(S, window, renderGraph) ==
    LET commandGraph == getCommandGraph(S, window)
    IN  IF commandGraph = Null THEN SoftAssert(S, "assert commandGraph")
        ELSE IF Len(S.children[commandGraph]) = 0
        THEN SoftAssert(S, "assert commandGraph->children.size() > 0")
        ELSE activateRenderGraph(
                [S EXCEPT !.children[commandGraph] = << renderGraph >> \o @,
                          !.log = Append(@, "children")],
                renderGraph, window)

\* ----------------------------------------------------------------- windows
\* mutant: no manipulator is installed for the default view of the new window
add_window_NoManipulator(S, fut, alloc) ==
    LET S0 == Event(S, "deviceWaitIdle")
        window == NewWindow(S0, alloc)
        view == DefaultView(window)
        S1 == [S0 EXCEPT !.commandGraphByWindow = MapPut(@, window, window),
                         !.log = Append(@, "commandGraphByWindow")]
        S2 == IF S1.viewerRealized
              THEN addViewAfterViewerIsRealized(S1, window, view, 0)
              ELSE addViewBeforeViewerIsRealized(S1, window, view, 0)
        S3 == [S2 EXCEPT !.supportMultiThreadedRecord = TRUE,
                         !.viewerWindows = Append(@, window),
                         !.log = Append(@, "windows")]
        S4 == Resolve(S3, fut, window)
    IN  IF S4.viewerRealized THEN [S4 EXCEPT !.viewerDirty = TRUE] ELSE S4

\* mutant: the new window marks the viewer dirty whether it is realized or not
add_window_AlwaysDirty(S, fut, alloc) ==
    LET S0 == Event(S, "deviceWaitIdle")
        window == NewWindow(S0, alloc)
        view == DefaultView(window)
        S1 == [S0 EXCEPT !.commandGraphByWindow = MapPut(@, window, window),
                         !.log = Append(@, "commandGraphByWindow")]
        S2 == IF S1.viewerRealized
              THEN addViewAfterViewerIsRealized(S1, window, view, 0)
              ELSE addViewBeforeViewerIsRealized(S1, window, view, 0)
        S3 == [S2 EXCEPT !.supportMultiThreadedRecord = TRUE,
                         !.viewerWindows = Append(@, window),
                         !.log = Append(@, "windows")]
        S4 == Resolve(addManipulator(S3, window, view), fut, window)
    IN  [S4 EXCEPT !.viewerDirty = TRUE]

\* the lambda `add_window` of Application::addWindow
add_window(S, fut, alloc) ==
    LET S0 == Event(S, "deviceWaitIdle")
        window == NewWindow(S0, alloc)
        view == DefaultView(window)
        S1 == [S0 EXCEPT !.commandGraphByWindow = MapPut(@, window, window),
                         !.log = Append(@, "commandGraphByWindow")]
        S2 == IF S1.viewerRealized
              THEN addViewAfterViewerIsRealized(S1, window, view, 0)
              ELSE addViewBeforeViewerIsRealized(S1, window, view, 0)
        S3 == [S2 EXCEPT !.supportMultiThreadedRecord = TRUE,
                         !.viewerWindows = Append(@, window),
                         !.log = Append(@, "windows")]
        S4 == Resolve(addManipulator(S3, window, view), fut, window)
    IN  IF S4.viewerRealized THEN [S4 EXCEPT !.viewerDirty = TRUE] ELSE S4

\* ------------------------------------------------------------------ viewer
CloseHandler(S) ==
    [kind |-> "close", view |-> Null,
     id |-> 1 + Cardinality({i \in DOMAIN S.eventHandlers : S.eventHandlers[i].kind = "close"})]

setupViewer(S) ==
    [S EXCEPT !.eventHandlers = Append(@, CloseHandler(S)),
              !.assignedCommandGraphs =
                  {S.commandGraphByWindow[w] : w \in DOMAIN S.commandGraphByWindow},
              !.log = Append(@, "setupViewer")]

RECURSIVE WindowsInOrder(_, _)
WindowsInOrder(dc, w) ==
    IF w > MaxWindows THEN << >>
    ELSE (IF w \in DOMAIN dc THEN << w >> ELSE << >>) \o WindowsInOrder(dc, w + 1)

\* mutant: the captured handlers are not reinstalled on the new viewer
recreateViewer_DropHandlers(S) ==
    LET S0 == Event(Event(S, "recreateViewer"), "deviceWaitIdle")
    IN  setupViewer(
            [S0 EXCEPT !.viewerWindows = WindowsInOrder(S0.displayConfiguration, 1),
                       !.eventHandlers = << >>,
                       !.rebuilds = @ + 1,
                       !.log = Append(@, "windows")])

\* mutant: the new viewer is treated as not realized
recreateViewer_Unrealize(S) ==
    LET handlers == S.eventHandlers
        S0 == Event(Event(S, "recreateViewer"), "deviceWaitIdle")
    IN  setupViewer(
            [S0 EXCEPT !.viewerWindows = WindowsInOrder(S0.displayConfiguration, 1),
                       !.eventHandlers = handlers,
                       !.viewerRealized = FALSE,
                       !.rebuilds = @ + 1,
                       !.log = Append(@, "windows")])

\* mutant: only the windows that still list a view are given to the new viewer
recreateViewer_SkipEmptyWindows(S) ==
    LET handlers == S.eventHandlers
        S0 == Event(Event(S, "recreateViewer"), "deviceWaitIdle")
    IN  setupViewer(
            [S0 EXCEPT !.viewerWindows =
                            SelectSeq(WindowsInOrder(S0.displayConfiguration, 1),
                                      LAMBDA w : S0.displayConfiguration[w] # << >>),
                       !.eventHandlers = handlers,
                       !.rebuilds = @ + 1,
                       !.log = Append(@, "windows")])

recreateViewer(S) ==
    LET handlers == S.eventHandlers
        S0 == Event(Event(S, "recreateViewer"), "deviceWaitIdle")
    IN  setupViewer(
            [S0 EXCEPT !.viewerWindows = WindowsInOrder(S0.displayConfiguration, 1),
                       !.eventHandlers = handlers,
                       !.rebuilds = @ + 1,
                       !.log = Append(@, "windows")])

\* mutant: realize does not make a window when the caller made none
realize_NoDefaultWindow(S, alloc) ==
    IF S.viewerRealized THEN S
    ELSE LET S0 == [S EXCEPT !.realizes = @ + 1, !.log = Append(@, "realize")]
         IN  [setupViewer(S0) EXCEPT !.viewerRealized = TRUE]

realize(S, alloc) ==
    IF S.viewerRealized THEN S
    ELSE LET S0 == [S EXCEPT !.realizes = @ + 1, !.log = Append(@, "realize")]
             S1 == IF Len(S0.viewerWindows) = 0 THEN add_window(S0, 0, alloc) ELSE S0
         IN  [setupViewer(S1) EXCEPT !.viewerRealized = TRUE]

\* ------------------------------------------------------- deferred operations
\* instance.runtime().runDuringUpdate(function)
runDuringUpdate(S, op) ==
    [S EXCEPT !.requested = @ + 1,
              !.updateOperations = Append(@, [op EXCEPT !.id = S.requested + 1])]

Operation(kind, window, view, fut, renderGraph) ==
    [id |-> 0, kind |-> kind, window |-> window, view |-> view, fut |-> fut,
     renderGraph |-> renderGraph]

\* the body of one queued operation
RunOperation(S, op, alloc) ==
    LET S0 == [S EXCEPT !.executed = Append(@, op.id), !.log = Append(@, "operation")]
    IN  CASE op.kind = "addWindow" -> add_window(S0, op.fut, alloc)
          [] op.kind = "addView" -> addViewAfterViewerIsRealized(S0, op.window, op.view, op.fut)
          [] op.kind = "removeView" -> remove(S0, op.view)
          [] op.kind = "refreshView" -> refresh(S0, op.view)
          [] op.kind = "addPreRenderGraph" -> func(S0, op.window, op.renderGraph)

RECURSIVE RunOperations(_, _, _)
RunOperations(S, ops, alloc) ==
    IF ops = << >> THEN S
    ELSE RunOperations(RunOperation(S, Head(ops), alloc), Tail(ops), alloc)

\* viewer->update(): the operations queued so far are taken off the queue and run
viewerUpdate(S, alloc) ==
    RunOperations([S EXCEPT !.updateOperations = << >>, !.log = Append(@, "viewer.update")],
                  S.updateOperations, alloc)

\* ------------------------------------------------------------------- clock
\* ticks of std::chrono::steady_clock (nanoseconds) in one microsecond
TicksPerMicrosecond == 1000
\* the readings t_start, t_update, t_record, t_present, t_end of one frame
Epoch == << 0, 0, 0, 0, 0 >>
\* gaps between two readings: whole microseconds, just above and just below
Durations ==
    {k * TicksPerMicrosecond + r : k \in 0 .. MaxMicros,
                                   r \in {0, 1, TicksPerMicrosecond - 1}}
\* steady_clock never goes back
Clocks ==
    {<< s, s + a, s + a + b, s + a + b + c, s + a + b + c + d >> :
        s \in {0, TicksPerMicrosecond - 1}, a \in Durations, b \in Durations,
        c \in Durations, d \in Durations}

\* ------------------------------------------------------------- the API calls
Called(S, call, window, view, accepted) ==
    [S EXCEPT !.log = << >>,
              !.last = [call |-> call, window |-> window, view |-> view,
                        accepted |-> accepted, returned |-> Null, handlers |-> << >>,
                        windows |-> << >>, clock |-> Epoch]]

Returned(S, value) == [S EXCEPT !.last.returned = value]

addWindow(S, traits, alloc) ==
    IF traits = Null THEN SoftAssert(Called(S, "addWindow", Null, Null, FALSE), "assert traits")
    ELSE LET fut == Len(S.futures) + 1
             S0 == [Called(S, "addWindow", Null, Null, TRUE) EXCEPT
                        !.futures = Append(@, NewFuture("window", Null, Null, FALSE))]
             S1 == IF S0.viewerRealized
                   THEN runDuringUpdate(
                            [S0 EXCEPT !.futures[fut].deferred = TRUE,
                                       !.futures[fut].op = S0.requested + 1],
                            Operation("addWindow", Null, Null, fut, Null))
                   ELSE add_window(S0, fut, alloc)
         IN  Returned(S1, fut)

\* mutant: the camera of the view is not checked
addView_NoCameraCheck(S, window, view, onCreate) ==
    IF window = Null
    THEN SoftAssert(Called(S, "addView", window, view, FALSE), "assert window != nullptr")
    ELSE IF view = Null
    THEN SoftAssert(Called(S, "addView", window, view, FALSE), "assert view != nullptr")
    ELSE LET fut == Len(S.futures) + 1
             S0 == [Called(S, "addView", window, view, TRUE) EXCEPT
                        !.futures = Append(@, NewFuture("view", window, view, onCreate))]
             S1 == IF S0.viewerRealized
                   THEN runDuringUpdate(
                            [S0 EXCEPT !.futures[fut].deferred = TRUE,
                                       !.futures[fut].op = S0.requested + 1],
                            Operation("addView", window, view, fut, Null))
                   ELSE addViewBeforeViewerIsRealized(S0, window, view, fut)
         IN  Returned(S1, fut)

addView(S, window, view, onCreate) ==
    IF window = Null
    THEN SoftAssert(Called(S, "addView", window, view, FALSE), "assert window != nullptr")
    ELSE IF view = Null
    THEN SoftAssert(Called(S, "addView", window, view, FALSE), "assert view != nullptr")
    ELSE IF view = NoCameraView
    THEN SoftAssert(Called(S, "addView", window, view, FALSE),
                    "assert view->camera != nullptr")
    ELSE LET fut == Len(S.futures) + 1
             S0 == [Called(S, "addView", window, view, TRUE) EXCEPT
                        !.futures = Append(@, NewFuture("view", window, view, onCreate))]
             S1 == IF S0.viewerRealized
                   THEN runDuringUpdate(
                            [S0 EXCEPT !.futures[fut].deferred = TRUE,
                                       !.futures[fut].op = S0.requested + 1],
                            Operation("addView", window, view, fut, Null))
                   ELSE addViewBeforeViewerIsRealized(S0, window, view, fut)
         IN  Returned(S1, fut)

\* mutant: removeView runs its lambda inline whatever the realization flag
removeView_Inline(S, view) ==
    IF view = Null
    THEN SoftAssert(Called(S, "removeView", Null, Null, FALSE), "assert view != nullptr")
    ELSE remove(Called(S, "removeView", Null, view, TRUE), view)

removeView(S, view) ==
    IF view = Null
    THEN SoftAssert(Called(S, "removeView", Null, Null, FALSE), "assert view != nullptr")
    ELSE LET S0 == Called(S, "removeView", Null, view, TRUE)
         IN  IF S0.viewerRealized
             THEN runDuringUpdate(S0, Operation("removeView", Null, view, 0, Null))
             ELSE remove(S0, view)

refreshView(S, view) ==
    LET S0 == Called(S, "refreshView", Null, view, TRUE)
    IN  IF S0.viewerRealized
        THEN runDuringUpdate(S0, Operation("refreshView", Null, view, 0, Null))
        ELSE refresh(S0, view)

addPreRenderGraph(S, window, renderGraph) ==
    LET S0 == Called(S, "addPreRenderGraph", window, Null, TRUE)
    IN  IF S0.viewerRealized
        THEN runDuringUpdate(S0, Operation("addPreRenderGraph", window, Null, 0, renderGraph))
        ELSE func(S0, window, renderGraph)

\* -------------------------------------------------------------------- frame
\* std::chrono::duration_cast<std::chrono::microseconds> of a steady_clock
\* duration: truncation toward zero
duration_cast_RoundUp(d) == (d + TicksPerMicrosecond - 1) \div TicksPerMicrosecond

duration_cast(d) ==
    IF d >= 0 THEN d \div TicksPerMicrosecond ELSE 0 - ((0 - d) \div TicksPerMicrosecond)

\* t = << t_start, t_update, t_record, t_present, t_end >>
frameStats(t) ==
    [ frame |-> duration_cast(t[5] - t[1]), events |-> duration_cast(t[2] - t[1]),
      update |-> duration_cast(t[3] - t[2]), record |-> duration_cast(t[4] - t[3]),
      present |-> duration_cast(t[5] - t[4]) ]

\* the phases of frame() from mapNode->update to viewer->handleEvents
SceneUpdateAndEvents(updateFunction) ==
    << "mapNode.update", "ecs.update", "ecs_node.update" >>
        \o (IF updateFunction THEN << "updateFunction" >> ELSE << >>)
        \o << "handleEvents" >>

\* the end of frame() from the dirty check on
RecordAndPresent(S, active, t) ==
    IF S.viewerDirty
    THEN Returned(
            recreateViewer([S EXCEPT !.viewerDirty = FALSE,
                                     !.last.handlers = S.eventHandlers,
                                     !.last.windows = S.viewerWindows,
                                     !.log = Append(@, "dirty")]),
            TRUE)
    ELSE Returned(
            [S EXCEPT !.log = @ \o << "clean", "recordAndSubmit", "present" >>,
                      !.stats = frameStats(t),
                      !.last.clock = t],
            active)

\* mutant: the queued operations are run between recordAndSubmit and present
frame_UpdateAfterRecord(S, alloc, advance, active, updateFunction, t) ==
    LET called == Called(S, "frame", Null, Null, TRUE)
        S0 == IF ~called.viewerRealized THEN realize(called, alloc) ELSE called
    IN  IF ~advance THEN Returned(Event(S0, "advanceToNextFrame"), FALSE)
        ELSE
        LET S1 == [S0 EXCEPT !.log = @ \o << "advanceToNextFrame" >>
                                       \o SceneUpdateAndEvents(updateFunction)
                                       \o << "runtime.update" >>]
        IN  IF S1.viewerDirty
            THEN RecordAndPresent(S1, active, t)
            ELSE Returned(
                    [Event(viewerUpdate([S1 EXCEPT !.log = @ \o << "clean", "recordAndSubmit" >>],
                                        alloc),
                           "present")
                        EXCEPT !.stats = frameStats(t), !.last.clock = t],
                    active)

\* mutant: input events are dispatched before the scene is updated
frame_EventsBeforeUpdate(S, alloc, advance, active, updateFunction, t) ==
    LET called == Called(S, "frame", Null, Null, TRUE)
        S0 == IF ~called.viewerRealized THEN realize(called, alloc) ELSE called
    IN  IF ~advance THEN Returned(Event(S0, "advanceToNextFrame"), FALSE)
        ELSE
        LET S1 == [S0 EXCEPT !.log = @ \o << "advanceToNextFrame", "handleEvents",
                                             "mapNode.update", "ecs.update",
                                             "ecs_node.update" >>
                                       \o (IF updateFunction THEN << "updateFunction" >>
                                           ELSE << >>)]
            S2 == Event(viewerUpdate(S1, alloc), "runtime.update")
        IN  RecordAndPresent(S2, active, t)

\* mutant: the queued operations are run before the advance step is asked
frame_UpdateBeforeAdvance(S, alloc, advance, active, updateFunction, t) ==
    LET called == Called(S, "frame", Null, Null, TRUE)
        S0 == IF ~called.viewerRealized THEN realize(called, alloc) ELSE called
        S1 == viewerUpdate(S0, alloc)
    IN  IF ~advance THEN Returned(Event(S1, "advanceToNextFrame"), FALSE)
        ELSE
        LET S2 == [S1 EXCEPT !.log = @ \o << "advanceToNextFrame" >>
                                       \o SceneUpdateAndEvents(updateFunction)
                                       \o << "runtime.update" >>]
        IN  RecordAndPresent(S2, active, t)

\* advance: what viewer->advanceToNextFrame() answers; active: viewer->active();
\* updateFunction: whether the caller has set Application::updateFunction;
\* t: the readings of std::chrono::steady_clock
frame(S, alloc, advance, active, updateFunction, t) ==
    LET called == Called(S, "frame", Null, Null, TRUE)
        S0 == IF ~called.viewerRealized THEN realize(called, alloc) ELSE called
    IN  IF ~advance THEN Returned(Event(S0, "advanceToNextFrame"), FALSE)
        ELSE
        LET S1 == [S0 EXCEPT !.log = @ \o << "advanceToNextFrame" >>
                                       \o SceneUpdateAndEvents(updateFunction)]
            S2 == Event(viewerUpdate(S1, alloc), "runtime.update")
        IN  RecordAndPresent(S2, active, t)

\* ------------------------------------------------------------ specification
\* the application after its constructor; clock: the readings its frames will take
Constructed(clock) ==
    /\ viewerRealized = FALSE
    /\ viewerDirty = FALSE
    /\ viewerWindows = << >>
    /\ eventHandlers = << >>
    /\ assignedCommandGraphs = {}
    /\ commandGraphByWindow = << >>
    /\ children = [c \in AppWindows |-> << >>]
    /\ viewData = << >>
    /\ displayConfiguration = << >>
    /\ manipulatorOf = [v \in AllViews |-> Null]
    /\ renderGraphs = << >>
    /\ viewport = [v \in AllViews |-> DefaultViewport]
    /\ manipulators = 0
    /\ supportMultiThreadedRecord = FALSE
    /\ updateOperations = << >>
    /\ futures = << >>
    /\ log = << >>
    /\ executed = << >>
    /\ requested = 0
    /\ rebuilds = 0
    /\ realizes = 0
    /\ stats = [frame |-> 0, events |-> 0, update |-> 0, record |-> 0, present |-> 0]
    /\ running = FALSE
    /\ last = [call |-> "Application", window |-> Null, view |-> Null,
               accepted |-> TRUE, returned |-> Null, handlers |-> << >>,
               windows |-> << >>, clock |-> clock]
    /\ calls = 0
    /\ userViews = 0

Init == Constructed(Epoch)

Windows == DOMAIN commandGraphByWindow
WindowArgs == Windows \cup {ForeignWindow, Null}
\* the views a caller can pass: one it created earlier, one it creates for this
\* call, the default view of a window, a view without camera, or no view
CallerViews == {v \in UserViews : v <= userViews + 1}
AttachableViews == CallerViews \cup {DefaultView(w) : w \in Windows}
ViewArgs == AttachableViews \cup {NoCameraView, Null}
QueuedWindows ==
    Cardinality({i \in DOMAIN updateOperations : updateOperations[i].kind = "addWindow"})
\* the windows the next frame() creates: the queued ones, or the default one
WindowsToCreate ==
    QueuedWindows + (IF ~viewerRealized /\ viewerWindows = << >> THEN 1 ELSE 0)

Call(S, view) ==
    /\ ~running
    /\ calls < MaxCalls
    /\ calls' = calls + 1
    /\ userViews' = IF view \in UserViews /\ view > userViews THEN view ELSE userViews
    /\ UNCHANGED running
    /\ Commit(S)

AddWindow ==
    \E traits \in {Null, 1},
       alloc \in AllocOrders(AppWindows \ Windows, IF viewerRealized THEN 0 ELSE 1) :
        /\ traits # Null => Cardinality(Windows) + QueuedWindows < MaxWindows
        /\ Call(addWindow(State, traits, alloc), Null)

AddView ==
    \E window \in WindowArgs, view \in ViewArgs :
        Call(addView(State, window, view, TRUE), view)

RemoveView == \E view \in AttachableViews \cup {Null} : Call(removeView(State, view), view)

RefreshView == \E view \in AttachableViews \cup {Null} : Call(refreshView(State, view), view)

\* the caller changes the viewport of a view's camera
SetViewport ==
    \E view \in AttachableViews, vp \in Viewports :
        /\ vp # viewport[view]
        /\ Call([Called(State, "setViewport", Null, view, TRUE) EXCEPT !.viewport[view] = vp],
                view)

AddPreRenderGraph ==
    \E window \in WindowArgs \ {Null} :
        Call(addPreRenderGraph(State, window, UserRenderGraph), Null)

\* frame() called by the caller's own loop, with no window closed yet, so
\* that viewer->active() answers true (RunSpec has the viewer close as well);
\* whether updateFunction is set matters only when a frame is available
FrameInputs ==
    {<< FALSE, FALSE, FALSE >>}
        \cup {<< TRUE, TRUE, updateFunction >> : updateFunction \in BOOLEAN}

Frame ==
    \E alloc \in AllocOrders(AppWindows \ Windows, WindowsToCreate), in \in FrameInputs :
        /\ ~running
        /\ UNCHANGED << calls, userViews, running >>
        /\ Commit(frame(State, alloc, in[1], in[2], in[3], Epoch))

Next ==
    \/ AddWindow
    \/ AddView
    \/ RemoveView
    \/ RefreshView
    \/ AddPreRenderGraph
    \/ SetViewport
    \/ Frame

Spec == Init /\ [][Next]_vars

\* ------------------------------------------------------ Application::run
\* The caller enters run(); each step of the loop is one frame() call, and
\* run() returns 0 after the first one that does not return true.
Run ==
    /\ ~running
    /\ running' = TRUE
    /\ UNCHANGED << calls, userViews >>
    /\ Commit(State)

RunFrame ==
    \E alloc \in AllocOrders(AppWindows \ Windows, WindowsToCreate),
       advance \in BOOLEAN, active \in BOOLEAN :
        LET S == frame(State, alloc, advance, active, TRUE, Epoch)
        IN  /\ running
            /\ UNCHANGED << calls, userViews >>
            /\ IF S.last.returned = TRUE
               THEN running' = TRUE /\ Commit(S)
               ELSE /\ running' = FALSE
                    /\ Commit([S EXCEPT !.last.call = "run", !.last.returned = 0])

RunNext ==
    \/ AddView
    \/ RemoveView
    \/ Frame
    \/ Run
    \/ RunFrame

RunSpec == Init /\ [][RunNext]_vars

\* ------------------------------------------------------- frame statistics
\* The clock readings of the frames are drawn when the application starts;
\* every frame() then computes its statistics from them.
StatsInit == \E t \in Clocks : Constructed(t)

TimedFrame ==
    \E alloc \in AllocOrders(AppWindows \ Windows, WindowsToCreate),
       advance \in BOOLEAN, active \in BOOLEAN :
        /\ ~running
        /\ UNCHANGED << calls, userViews, running >>
        /\ Commit([frame(State, alloc, advance, active, TRUE, last.clock)
                        EXCEPT !.last.clock = last.clock])

StatsNext == TimedFrame

StatsSpec == StatsInit /\ [][StatsNext]_vars

\* ------------------------------------------- the setup before realization
\* The caller builds its windows and views before the first frame(), with
\* arguments that pass the soft assertions.
SetupCalls == MaxCalls + 2

SetupCall(S, view) ==
    /\ ~running
    /\ ~viewerRealized
    /\ calls < SetupCalls
    /\ calls' = calls + 1
    /\ userViews' = IF view \in UserViews /\ view > userViews THEN view ELSE userViews
    /\ UNCHANGED running
    /\ Commit(S)

SetupAddWindow ==
    \E alloc \in AllocOrders(AppWindows \ Windows, 1) :
        /\ Cardinality(Windows) < MaxWindows
        /\ SetupCall(addWindow(State, 1, alloc), Null)

SetupAddView ==
    \E window \in Windows, view \in AttachableViews :
        SetupCall(addView(State, window, view, TRUE), view)

SetupRemoveView ==
    \E view \in AttachableViews : SetupCall(removeView(State, view), view)

SetupNext ==
    \/ SetupAddWindow
    \/ SetupAddView
    \/ SetupRemoveView

SetupSpec == Init /\ [][SetupNext]_vars

\* ---------------------------------------------------------------- properties
Mutations == {"children", "viewData", "displayConfiguration", "windows"}
Quiescent == updateOperations = << >>
Listed(view, window) ==
    window \in DOMAIN displayConfiguration /\ view \in Range(displayConfiguration[window])
ListedViews == {v \in AllViews : \E w \in AppWindows : Listed(v, w)}
ChildrenOf(window) ==
    IF window \in Windows THEN Range(children[commandGraphByWindow[window]]) ELSE {}
ViewRenderGraphs(window) == ChildrenOf(window) \ {UserRenderGraph}
HasRenderGraphUnder(view, window) ==
    /\ view \in DOMAIN viewData
    /\ viewData[view] # Null
    /\ viewData[view] \in ChildrenOf(window)
ManipulatorHandlers == SelectSeq(eventHandlers, LAMBDA h : h.kind = "manipulator")
RECURSIVE SeqSum(_)
SeqSum(s) == IF s = << >> THEN 0 ELSE Head(s) + SeqSum(Tail(s))
AttachedCount ==
    SeqSum([i \in 1 .. MaxWindows |->
                IF i \in DOMAIN displayConfiguration THEN Len(displayConfiguration[i]) ELSE 0])

\* C1: once every requested operation has taken effect, a view is listed
\* under window W in the Display Configuration exactly when the view
\* bookkeeping holds a render graph for it that is a child of W's command
\* graph, and every view render graph under a command graph belongs to a view
\* listed under that window.
C1_DisplayAndCommandGraphsAgree ==
    Quiescent =>
        /\ \A w \in AppWindows, v \in AllViews :
                Listed(v, w) <=> HasRenderGraphUnder(v, w)
        /\ \A w \in AppWindows : \A rg \in ViewRenderGraphs(w) :
                Listed(renderGraphs[rg].view, w)

\* C8: once every requested operation has taken effect, the handler list
\* holds as many manipulators as there are views listed in the Display
\* Configuration, none twice, no null entry, none of a removed view.
C8_ManipulatorsMatchAttachedViews ==
    Quiescent =>
        /\ Len(ManipulatorHandlers) = AttachedCount
        /\ \A i, j \in DOMAIN ManipulatorHandlers :
                ManipulatorHandlers[i].id = ManipulatorHandlers[j].id => i = j
        /\ \A i \in DOMAIN eventHandlers : eventHandlers[i].kind # "null"
        /\ \A i \in DOMAIN ManipulatorHandlers : ManipulatorHandlers[i].view \in ListedViews

\* C9: whenever no operation is pending, the manipulators in the handler
\* list are those of the Display Configuration's windows in order, each
\* window's views taken from last-added to first-added.
C9_ManipulatorOrderFollowsDisplayConfiguration ==
    Quiescent =>
        [i \in DOMAIN ManipulatorHandlers |-> ManipulatorHandlers[i].view]
            = [i \in 1 .. AttachedCount |->
                    ManipulatorsInOrder(displayConfiguration,
                                        [v \in AllViews |-> 1], 1)[i].view]

\* C10: every view listed in the Display Configuration has a manipulator
\* stored on it.
C10_EveryListedViewHasManipulator ==
    \A v \in ListedViews : manipulatorOf[v] # Null

\* ---- C2
ViewFutures == {i \in DOMAIN futures : futures[i].kind = "view"}
QueuedIds == {updateOperations[i].id : i \in DOMAIN updateOperations}
Advanced == last.call = "frame" /\ "mapNode.update" \in Range(log)

\* C2: the Future of an accepted addView is resolved with the view when the
\* call returns before realization; after realization it is unresolved at
\* return, stays unresolved while its operation is queued, and is resolved
\* once a frame() whose advance step succeeded has returned.
C2_AddViewFutureResolution ==
    /\ \A i \in ViewFutures :
            IF futures[i].deferred
            THEN IF futures[i].op \in QueuedIds
                 THEN futures[i].value = Null /\ futures[i].resolves = 0
                 ELSE futures[i].value = futures[i].view /\ futures[i].resolves = 1
            ELSE futures[i].value = futures[i].view /\ futures[i].resolves = 1
    /\ (last.call = "addView" /\ last.accepted) =>
            /\ last.returned \in ViewFutures
            /\ futures[last.returned].deferred = viewerRealized
            /\ viewerRealized => futures[last.returned].op \in QueuedIds
    /\ Advanced => QueuedIds = {}

C2_Witness ==
    /\ Advanced
    /\ \E i \in ViewFutures : futures[i].deferred /\ futures[i].value = futures[i].view

\* ---- C3
Structural ==
    << viewerWindows, commandGraphByWindow, children, viewData,
       displayConfiguration, eventHandlers, viewerDirty, renderGraphs >>
StructuralCalls == {"addWindow", "addView", "removeView", "refreshView"}

AppliedInline ==
    /\ last'.call = "addWindow" =>
            \E w \in DOMAIN commandGraphByWindow' \ DOMAIN commandGraphByWindow :
                /\ DOMAIN commandGraphByWindow' = DOMAIN commandGraphByWindow \cup {w}
                /\ displayConfiguration'[w] = << DefaultView(w) >>
                /\ viewerWindows' = Append(viewerWindows, w)
                /\ futures'[last'.returned].value = w
    /\ last'.call = "addView" =>
            /\ futures'[last'.returned].value = last'.view
            /\ last'.window \in DOMAIN commandGraphByWindow =>
                    /\ Len(displayConfiguration'[last'.window])
                         = 1 + Count(displayConfiguration[last'.window], last'.view)
                             + Len(Without(displayConfiguration[last'.window], last'.view))
                    /\ viewData'[last'.view] = Len(renderGraphs')
                    /\ Len(renderGraphs') = Len(renderGraphs) + 1
                    /\ viewData'[last'.view]
                         \in Range(children'[commandGraphByWindow[last'.window]])
    /\ (/\ last'.call = "refreshView"
        /\ last'.view \in DOMAIN viewData
        /\ viewData[last'.view] # Null) =>
            renderGraphs'[viewData[last'.view]].renderArea = uint32_t(viewport[last'.view])
    /\ last'.call = "removeView" =>
            LET window == getWindow(State, last'.view)
            IN  (window # Null /\ last'.view \in DOMAIN viewData) =>
                    /\ last'.view \notin Range(displayConfiguration'[window])
                    /\ last'.view \notin DOMAIN viewData'
                    /\ viewData[last'.view]
                         \notin Range(children'[commandGraphByWindow[window]])

\* C3: after realization an accepted addWindow / addView / removeView /
\* refreshView call changes no structural state and appends exactly one
\* operation to the deferred queue; before realization the call applies its
\* effect before it returns and queues nothing.
C3_DeferredAfterRealization ==
    [][ (calls' = calls + 1 /\ last'.accepted /\ last'.call \in StructuralCalls) =>
            IF viewerRealized
            THEN /\ UNCHANGED Structural
                 /\ Len(updateOperations') = Len(updateOperations) + 1
                 /\ SubSeq(updateOperations', 1, Len(updateOperations)) = updateOperations
                 /\ updateOperations'[Len(updateOperations')].kind = last'.call
            ELSE /\ updateOperations' = << >>
                 /\ requested' = requested
                 /\ AppliedInline ]_vars

C3_Witness ==
    /\ viewerRealized
    /\ last.call = "removeView"
    /\ last.accepted
    /\ \E i \in DOMAIN updateOperations :
            updateOperations[i].kind = "removeView" /\ Listed(updateOperations[i].view, 1)

\* ---- C4
Before(s, a, b) ==
    \A i, j \in DOMAIN s : (s[i] = a /\ s[j] = b) => i < j

\* C4: the operations queued after realization are executed exactly once
\* each, in request order, and only at the queue-drain step of frame(): after
\* event handling and before recording.
C4_QueuedOperationsRunOnceInOrder ==
    /\ executed \o [i \in DOMAIN updateOperations |-> updateOperations[i].id]
         = [i \in 1 .. requested |-> i]
    /\ "operation" \in Range(log) =>
            /\ last.call = "frame"
            /\ Before(log, "handleEvents", "operation")
            /\ Before(log, "viewer.update", "operation")
            /\ Before(log, "operation", "runtime.update")
            /\ Before(log, "operation", "recordAndSubmit")
            /\ Before(log, "operation", "present")

C4_Witness ==
    /\ Len(executed) >= 2
    /\ Count(log, "operation") >= 2
    /\ "present" \in Range(log)

\* ---- C5
Boundaries == {"operation", "recreateViewer", "realize"}

\* C5: while frames are running, every unit of work that changes command
\* graph children, view bookkeeping, Display Configuration or the window set
\* waits for the device to be idle before its first such change, and no such
\* change happens once recordAndSubmit has started.
C5_IdleWaitBeforeEveryMutation ==
    last.call = "frame" =>
        /\ \A i \in DOMAIN log : log[i] \in Mutations =>
                \E j \in 1 .. (i - 1) :
                    /\ log[j] = "deviceWaitIdle"
                    /\ \A k \in j .. i : log[k] \notin Boundaries
        /\ \A m \in Mutations : Before(log, m, "recordAndSubmit")

\* ---- C6
\* C6: a frame() that finds the dirty flag set clears it, rebuilds the viewer
\* once, neither records nor presents, and returns continue, with every
\* handler of the old viewer installed on the new one; a frame() that finds
\* it clear rebuilds nothing.
C6_DirtyFrameRebuildsOnce ==
    /\ (last.call = "frame" /\ "dirty" \in Range(log)) =>
            /\ ~viewerDirty
            /\ Count(log, "recreateViewer") = 1
            /\ "recordAndSubmit" \notin Range(log)
            /\ "present" \notin Range(log)
            /\ last.returned = TRUE
            /\ \A h \in Range(last.handlers) :
                    Count(eventHandlers, h) >= Count(last.handlers, h)
    /\ (last.call = "frame" /\ "dirty" \notin Range(log)) =>
            "recreateViewer" \notin Range(log)
    /\ (last.call = "frame" /\ Advanced) => ~viewerDirty

C6_Witness ==
    /\ last.call = "frame"
    /\ "dirty" \in Range(log)
    /\ Len(last.handlers) >= 2

\* ---- C7
\* C7: the realization flag starts false, is true after any frame() call,
\* is never set back to false, and the realize step runs at most once and
\* only inside frame().
C7_RealizedOnceAndForAll ==
    /\ ~viewerRealized
    /\ [](/\ realizes <= 1
          /\ viewerRealized <=> realizes = 1
          /\ last.call = "frame" => viewerRealized
          /\ "realize" \in Range(log) => last.call = "frame")
    /\ [][viewerRealized => viewerRealized']_vars

C7_Witness ==
    /\ viewerRealized
    /\ rebuilds >= 1
    /\ Cardinality(Windows) = 2

\* ---- C11
Registry == << commandGraphByWindow, children, viewData, displayConfiguration,
               eventHandlers >>
\* the step is a frame() whose queue drain ran at least one operation
DrainsQueue == last'.call = "frame" /\ calls' = calls /\ "operation" \in Range(log')
UnlistedRemovals ==
    \A i \in DOMAIN updateOperations :
        /\ updateOperations[i].kind = "removeView"
        /\ updateOperations[i].view \notin ListedViews

\* C11: removeView of a non-null view that no Display Configuration entry
\* lists leaves the command graph registry, every command graph's children,
\* the view bookkeeping, the Display Configuration with its window keys and
\* the handler list as they were, inline before realization and from the
\* queue after it, and the frame that runs it goes on to record and present.
C11_RemoveUnlistedViewIsNoOp ==
    [][ /\ (/\ calls' = calls + 1
            /\ last'.call = "removeView"
            /\ last'.accepted
            /\ ~viewerRealized
            /\ last'.view \notin ListedViews) =>
                /\ UNCHANGED Registry
                /\ "assert window != nullptr" \in Range(log')
        /\ (DrainsQueue /\ UnlistedRemovals) =>
                /\ UNCHANGED Registry
                /\ Count(log', "assert window != nullptr") = Len(updateOperations)
                /\ "present" \in Range(log')
                /\ last'.returned \in BOOLEAN ]_vars

C11_Witness ==
    /\ viewerRealized
    /\ last.call = "frame"
    /\ "operation" \in Range(log)
    /\ Count(log, "assert window != nullptr") = Count(log, "operation")
    /\ "present" \in Range(log)
    /\ \E v \in DOMAIN viewData : v \notin ListedViews

\* ---- C12
RejectedCall ==
    /\ calls' = calls + 1
    /\ \/ last'.call = "addWindow" /\ "assert traits" \in Range(log')
       \/ /\ last'.call = "addView"
          /\ (last'.window = Null \/ last'.view = Null \/ last'.view = NoCameraView)
       \/ last'.call = "removeView" /\ last'.view = Null

\* C12: addWindow with null traits, addView with a null window, a null view
\* or a view without camera, and removeView with a null view return an empty
\* result, change no structural state, queue nothing, resolve no Future and
\* invoke no on_create callback, before and after realization.
C12_NullArgumentsAreRejected ==
    [][ RejectedCall =>
            /\ ~last'.accepted
            /\ last'.returned = Null
            /\ UNCHANGED Structural
            /\ UNCHANGED << updateOperations, requested, executed, futures >>
            /\ UNCHANGED << viewerRealized, assignedCommandGraphs, manipulatorOf >> ]_vars

C12_Witness ==
    /\ viewerRealized
    /\ last.call = "addView"
    /\ last.window \in Windows
    /\ last.view = NoCameraView
    /\ ~last.accepted
    /\ updateOperations # << >>

\* ---- C13
PhaseEvents ==
    {"advanceToNextFrame", "mapNode.update", "ecs.update", "ecs_node.update",
     "updateFunction", "handleEvents", "viewer.update", "runtime.update", "dirty",
     "clean", "recordAndSubmit", "present"}
FramePhases == SelectSeq(log, LAMBDA e : e \in PhaseEvents)
SceneUpdate == << "advanceToNextFrame", "mapNode.update", "ecs.update", "ecs_node.update" >>
EventsAndQueue == << "handleEvents", "viewer.update", "runtime.update" >>
PhaseOrders ==
    {SceneUpdate \o callback \o EventsAndQueue \o ending :
        callback \in {<< >>, << "updateFunction" >>},
        ending \in {<< "dirty" >>, << "clean", "recordAndSubmit", "present" >>}}

\* C13: a frame() whose advance step succeeds runs map update, ECS updates,
\* the user callback if set, event handling, the queued operations, the
\* integration of compile results and the dirty check in this order, each
\* once, then recordAndSubmit and present unless the dirty check rebuilds;
\* the queued operations all run inside the queue-drain phase whatever they
\* are.
C13_FramePhasesInFixedOrder ==
    (last.call = "frame" /\ FramePhases # << "advanceToNextFrame" >>) =>
        /\ FramePhases \in PhaseOrders
        /\ Before(log, "handleEvents", "operation")
        /\ Before(log, "viewer.update", "operation")
        /\ Before(log, "operation", "runtime.update")
        /\ "dirty" \in Range(log) <=> "recreateViewer" \in Range(log)

C13_Witness ==
    /\ last.call = "frame"
    /\ Count(log, "operation") >= 2
    /\ "updateFunction" \notin Range(log)
    /\ "present" \in Range(log)

\* ---- C14
FirstFrame == ~viewerRealized /\ last'.call = "frame" /\ calls' = calls

\* C14: the first frame() of an application without windows creates exactly
\* one window, one command graph in the registry and one default view listed
\* under that window, and sets the realization flag; when a window was added
\* before the first frame(), realize creates no further window.
C14_FirstFrameCreatesDefaultWindow ==
    [][ FirstFrame =>
            /\ viewerRealized'
            /\ IF viewerWindows = << >>
               THEN \E w \in AppWindows :
                        /\ viewerWindows' = << w >>
                        /\ DOMAIN commandGraphByWindow' = {w}
                        /\ DOMAIN displayConfiguration' = {w}
                        /\ displayConfiguration'[w] = << DefaultView(w) >>
                        /\ HasRenderGraphUnder(DefaultView(w), w)'
                        /\ Len(renderGraphs') = 1
               ELSE /\ viewerWindows' = viewerWindows
                    /\ commandGraphByWindow' = commandGraphByWindow
                    /\ displayConfiguration' = displayConfiguration
                    /\ renderGraphs' = renderGraphs ]_vars

C14_Witness ==
    /\ last.call = "frame"
    /\ "realize" \in Range(log)
    /\ "commandGraphByWindow" \in Range(log)
    /\ viewerRealized
    /\ Cardinality(Windows) = 1
    /\ calls > 0

\* ---- C15
Last(q) == q[Len(q)]
\* this step is the second of two addView calls on one window, with distinct views
SecondAddView ==
    /\ calls' = calls + 1
    /\ ~viewerRealized
    /\ last.call = "addView" /\ last.accepted
    /\ last'.call = "addView" /\ last'.accepted
    /\ last'.window = last.window
    /\ last'.view # last.view
    /\ last.window \in Windows
\* this step removes the first of the two views, the second having just been added
RemovesFirst ==
    /\ calls' = calls + 1
    /\ ~viewerRealized
    /\ last.call = "addView" /\ last.accepted
    /\ last.window \in Windows
    /\ last'.call = "removeView"
    /\ last'.view # last.view
    /\ Len(displayConfiguration[last.window]) >= 2
    /\ displayConfiguration[last.window][Len(displayConfiguration[last.window]) - 1]
         = last'.view
    /\ getWindow(State, last'.view) = last.window
SecondStaysAttached ==
    /\ last.view \in DOMAIN viewData'
    /\ viewData'[last.view] = viewData[last.view]
    /\ renderGraphs'[viewData'[last.view]] = renderGraphs[viewData[last.view]]
    /\ viewData'[last.view] \in Range(children'[commandGraphByWindow'[last.window]])

C16_ProtectionOnlyWithSeveralWindows ==
    supportMultiThreadedRecord => Cardinality(Windows) > 1

\* ---- C17
RegisteredCommandGraphs == {commandGraphByWindow[w] : w \in Windows}
Rebuilt == last.call = "frame" /\ "recreateViewer" \in Range(log)

\* C17: after a viewer rebuild the new viewer holds the windows the old one
\* held, a window without views included, and its record/submit/present
\* task is bound to every command graph of the registry; whenever
\* recordAndSubmit runs, every window created so far has its command graph
\* bound.
C17_RebuildKeepsWindowsAndCommandGraphs ==
    /\ Rebuilt =>
            /\ Range(viewerWindows) = Range(last.windows)
            /\ Range(viewerWindows) = Windows
            /\ assignedCommandGraphs = RegisteredCommandGraphs
    /\ "recordAndSubmit" \in Range(log) =>
            /\ assignedCommandGraphs = RegisteredCommandGraphs
            /\ Range(viewerWindows) = Windows

C17_Witness ==
    /\ Rebuilt
    /\ Cardinality(Windows) = 2
    /\ \E w \in Windows : displayConfiguration[w] = << >>

\* ---- C18
\* the step is a frame() call, made by the caller or by run(), whose advance
\* step found no frame
NoFrameAvailable ==
    /\ calls' = calls
    /\ last' # last
    /\ last'.call \in {"frame", "run"}
    /\ log' # << >>
    /\ Last(log') = "advanceToNextFrame"

\* C18: when the advance step reports that no frame is available, frame()
\* returns stop and runs none of the later phases, so the queued operations
\* stay queued and their Futures unresolved; run() goes on while its frame()
\* calls return continue and returns after the first that returns stop.
C18_NoFrameStopsTheLoop ==
    [][ /\ NoFrameAvailable =>
                /\ last'.call = "frame" => last'.returned = FALSE
                /\ SelectSeq(log', LAMBDA e : e \in PhaseEvents \cup {"operation"})
                     = << "advanceToNextFrame" >>
                /\ UNCHANGED << updateOperations, executed, requested, futures, stats >>
        /\ (running /\ running') => (last'.call = "frame" /\ last'.returned = TRUE)
        /\ (running /\ ~running') => (last'.call = "run" /\ last'.returned = 0)
        /\ (last'.call = "run" /\ last' # last) => (running /\ ~running')
        /\ (~running /\ running') => UNCHANGED State ]_vars

C18_Witness ==
    /\ ~running
    /\ last.call = "run"
    /\ Last(log) = "advanceToNextFrame"
    /\ \E i \in ViewFutures :
            futures[i].deferred /\ futures[i].op \in QueuedIds /\ futures[i].resolves = 0

\* ---- C19
Presented == last.call = "frame" /\ "present" \in Range(log)
PhaseSum == stats.events + stats.update + stats.record + stats.present

\* C19: for a frame that reaches present, with clock readings t_start <=
\* t_update <= t_record <= t_present <= t_end, the stored statistics are not
\* negative, the four phase durations add up to t_end - t_start before
\* truncation, and after truncation to whole microseconds their sum is at
\* most the stored total and less than 4 microseconds below it.
C19_PhaseTimesAddUpToTotal ==
    Presented =>
        LET t == last.clock
        IN  /\ t[1] <= t[2] /\ t[2] <= t[3] /\ t[3] <= t[4] /\ t[4] <= t[5]
            /\ \A f \in DOMAIN stats : stats[f] >= 0
            /\ (t[2] - t[1]) + (t[3] - t[2]) + (t[4] - t[3]) + (t[5] - t[4]) = t[5] - t[1]
            /\ stats.frame * TicksPerMicrosecond <= t[5] - t[1]
            /\ t[5] - t[1] < (stats.frame + 1) * TicksPerMicrosecond
            /\ PhaseSum <= stats.frame
            /\ stats.frame - PhaseSum < 4

C19_Witness ==
    /\ Presented
    /\ stats.frame - PhaseSum = 3
    /\ stats.events = 1

\* ---- C20
Attached(view) == view \in DOMAIN viewData /\ viewData[view] # Null
RefreshedViews(views) == {v \in views : v # Null /\ Attached(v)}
\* the render graphs after the views in `views` have been refreshed, the
\* render area of each taking the value area(viewport of its view)
Refreshed(views, area(_)) ==
    [rg \in DOMAIN renderGraphs |->
        IF \E v \in RefreshedViews(views) : viewData[v] = rg
        THEN [renderGraphs[rg] EXCEPT !.renderArea = area(viewport[renderGraphs[rg].view])]
        ELSE renderGraphs[rg]]
OnlyRefreshes ==
    \A i \in DOMAIN updateOperations : updateOperations[i].kind = "refreshView"
QueuedViews == {updateOperations[i].view : i \in DOMAIN updateOperations}
\* a render area of so many pixels, as a viewport value
AsViewport(area) == area * PixelFractions
\* the viewport value, if a render area of whole pixels can hold it
Exactly(vp) == IF vp % PixelFractions = 0 THEN vp \div PixelFractions ELSE Null - 1

\* the step is a refreshView call that runs inline, or a frame() that runs
\* queued refreshView operations only
InlineRefresh == calls' = calls + 1 /\ last'.call = "refreshView" /\ ~viewerRealized
RefreshTakesEffect == InlineRefresh \/ (DrainsQueue /\ OnlyRefreshes)
RefreshingViews == IF InlineRefresh THEN {last'.view} ELSE QueuedViews
RefreshLeavesTheRest ==
    /\ \A v \in AllViews : Attached(v) => renderGraphs[viewData[v]].view = v
    /\ UNCHANGED << displayConfiguration, children, commandGraphByWindow, viewport >>
\* after realization the request itself changes no render graph
RequestLeavesRenderGraphs ==
    (calls' = calls + 1 /\ last'.call = "refreshView" /\ viewerRealized) =>
        UNCHANGED renderGraphs

\* C20 as claimed: once refreshView(view) has taken effect for an attached
\* view, the render area of its render graph equals the viewport the view's
\* camera has when the operation runs (not when it was requested); no other
\* render graph, no Display Configuration entry and no command graph's
\* children change.
C20_RenderAreaEqualsViewport ==
    [][ /\ RefreshTakesEffect =>
                    /\ renderGraphs' = Refreshed(RefreshingViews, Exactly)
                    /\ \A v \in RefreshedViews(RefreshingViews) :
                            AsViewport(renderGraphs'[viewData[v]].renderArea) = viewport'[v]
                    /\ RefreshLeavesTheRest
        /\ RequestLeavesRenderGraphs ]_vars

\* C20 as amended: the render area is the viewport converted to unsigned
\* integers, its fractions dropped.
C20_RenderAreaIsTruncatedViewport ==
    [][ /\ RefreshTakesEffect =>
                    /\ renderGraphs' = Refreshed(RefreshingViews, uint32_t)
                    /\ \A v \in RefreshedViews(RefreshingViews) :
                            /\ AsViewport(renderGraphs'[viewData[v]].renderArea) <= viewport'[v]
                            /\ viewport'[v] < AsViewport(renderGraphs'[viewData[v]].renderArea + 1)
                    /\ RefreshLeavesTheRest
        /\ RequestLeavesRenderGraphs ]_vars

C20_Witness ==
    /\ viewerRealized
    /\ last.call = "frame"
    /\ "renderArea" \in Range(log)
    /\ \E rg \in DOMAIN renderGraphs :
            /\ renderGraphs[rg].renderArea # DefaultViewport
            /\ AsViewport(renderGraphs[rg].renderArea) < viewport[renderGraphs[rg].view]

\* ---- C21
\* the step is a removeView call that runs inline on a view that has a
\* bookkeeping entry and is listed under some window
RemovesAttached ==
    /\ calls' = calls + 1
    /\ last'.call = "removeView"
    /\ ~viewerRealized
    /\ Attached(last'.view)
    /\ last'.view \in ListedViews
CommandGraphsOf(rendergraph) ==
    {c \in AppWindows : rendergraph \in Range(children[c])}
CommandGraphsAfter(rendergraph) ==
    {c \in AppWindows : rendergraph \in Range(children'[c])}

\* C21: removeView(v) of an attached view removes exactly v: v's render graph
\* is no longer a child of a command graph, v has no bookkeeping entry and no
\* window lists it; every other view keeps its bookkeeping entry, its render
\* graph under the same command graph and its place in its window's list;
\* the other windows' entries and the command graph registry are unchanged.
C21_RemoveViewRemovesExactlyTheView ==
    [][ RemovesAttached =>
            /\ CommandGraphsAfter(viewData[last'.view]) = {}
            /\ last'.view \notin DOMAIN viewData'
            /\ \A w \in DOMAIN displayConfiguration' :
                    last'.view \notin Range(displayConfiguration'[w])
            /\ \A u \in DOMAIN viewData \ {last'.view} :
                    /\ u \in DOMAIN viewData'
                    /\ viewData'[u] = viewData[u]
                    /\ CommandGraphsAfter(viewData[u]) = CommandGraphsOf(viewData[u])
            /\ DOMAIN displayConfiguration' = DOMAIN displayConfiguration
            /\ \A w \in DOMAIN displayConfiguration :
                    displayConfiguration'[w] = Without(displayConfiguration[w], last'.view)
            /\ commandGraphByWindow' = commandGraphByWindow ]_vars

\* ---- C22
WindowFutures == {i \in DOMAIN futures : futures[i].kind = "window"}
\* the step resolves the Future i that an addWindow call returned
ResolvesWindow(i) ==
    /\ i \in DOMAIN futures'
    /\ futures'[i].kind = "window"
    /\ futures'[i].resolves > 0
    /\ i \in DOMAIN futures => futures[i].resolves = 0
\* window w is complete in the state the step leads to
WindowComplete(w) ==
    /\ w \in DOMAIN commandGraphByWindow'
    /\ w \in DOMAIN displayConfiguration'
    /\ displayConfiguration'[w] = << DefaultView(w) >>
    /\ DefaultView(w) \in DOMAIN viewData'
    /\ viewData'[DefaultView(w)] \in Range(children'[commandGraphByWindow'[w]])
    /\ renderGraphs'[viewData'[DefaultView(w)]].window = w
    /\ Count(viewerWindows', w) = 1
    /\ manipulatorOf'[DefaultView(w)] # Null
    /\ Count(eventHandlers', [kind |-> "manipulator", id |-> manipulatorOf'[DefaultView(w)],
                              view |-> DefaultView(w)]) = 1

\* C22: when the Future returned by addWindow is resolved, inline before
\* realization or from the queue after it, it holds a window that has a
\* command graph in the registry, exactly its default view listed under it
\* with a render graph that is a child of that command graph, is registered
\* with the viewer once and has the manipulator of that view in the handler
\* list; the Future is resolved once and keeps its value.
C22_ResolvedWindowIsComplete ==
    [][ /\ \A i \in DOMAIN futures' :
                ResolvesWindow(i) =>
                    /\ futures'[i].resolves = 1
                    /\ futures'[i].value \in AppWindows
                    /\ WindowComplete(futures'[i].value)
        /\ \A i \in WindowFutures :
                futures[i].resolves > 0 =>
                    /\ futures'[i].resolves = 1
                    /\ futures'[i].value = futures[i].value
        /\ \A i \in WindowFutures :
                (futures[i].resolves = 0 /\ futures'[i].resolves = 0) =>
                    futures'[i].value = Null ]_vars

C22_Witness ==
    /\ viewerRealized
    /\ last.call = "frame"
    /\ Cardinality(Windows) = 2
    /\ \E i \in WindowFutures :
            /\ futures[i].deferred
            /\ futures[i].resolves = 1
            /\ futures[i].value \in Windows
            /\ displayConfiguration[futures[i].value] = << DefaultView(futures[i].value) >>

\* ---- C23
CreatedWindows == DOMAIN commandGraphByWindow' \ DOMAIN commandGraphByWindow
ViewCalls == {"addView", "removeView", "refreshView", "addPreRenderGraph", "setViewport"}

\* C23: the registry holds one command graph for every window the viewer was
\* given, no two windows sharing one; an entry appears only in a step that
\* ran the unit of work of addWindow, one entry for each run, and is never
\* replaced or removed afterwards, whether by addView, removeView,
\* refreshView, frame or a viewer rebuild; between calls the registry and the
\* Display Configuration have the same window keys.
C23_RegistryKeepsOneCommandGraphPerWindow ==
    /\ [](/\ DOMAIN commandGraphByWindow = DOMAIN displayConfiguration
          /\ Range(viewerWindows) = DOMAIN commandGraphByWindow
          /\ \A w, x \in DOMAIN commandGraphByWindow :
                commandGraphByWindow[w] = commandGraphByWindow[x] => w = x)
    /\ [][ /\ \A w \in DOMAIN commandGraphByWindow :
                /\ w \in DOMAIN commandGraphByWindow'
                /\ commandGraphByWindow'[w] = commandGraphByWindow[w]
           /\ CreatedWindows # {} =>
                /\ last'.call \in {"addWindow", "frame", "run"}
                /\ Cardinality(CreatedWindows) = Count(log', "commandGraphByWindow")
           /\ (calls' = calls + 1 /\ last'.call \in ViewCalls) =>
                UNCHANGED commandGraphByWindow ]_vars

C23_Witness ==
    /\ viewerRealized
    /\ rebuilds >= 1
    /\ last.call = "frame"
    /\ Count(log, "commandGraphByWindow") = 1
    /\ Len(executed) = 2
    /\ DOMAIN commandGraphByWindow = AppWindows
    /\ \E w \in DOMAIN displayConfiguration : displayConfiguration[w] = << >>

\* ---- C24
\* the queue-drain step of this frame ran the unit of work of addWindow
QueuedAddWindowRan ==
    \E i, j \in DOMAIN log :
        i < j /\ log[i] = "viewer.update" /\ log[j] = "commandGraphByWindow"

\* C24: the dirty flag is never true while the viewer is unrealized; the
\* dirty check of a frame finds it set exactly when the queue-drain step of
\* that frame ran an addWindow unit of work, whatever else was queued, and
\* clears it, so it is false when a frame() whose advance step succeeded
\* returns; addView, removeView, refreshView, addPreRenderGraph and a change
\* of viewport leave it as it is.
C24_DirtyOnlyFromQueuedAddWindow ==
    /\ [](/\ ~viewerRealized => ~viewerDirty
          /\ "dirty" \in Range(log) <=> QueuedAddWindowRan
          /\ "dirty" \in Range(log) => last.call = "frame"
          /\ (last.call = "frame" /\ Advanced) => ~viewerDirty)
    /\ [][ (calls' = calls + 1 /\ last'.call \in ViewCalls) =>
                viewerDirty' = viewerDirty ]_vars

C24_Witness ==
    /\ last.call = "frame"
    /\ QueuedAddWindowRan
    /\ Count(log, "operation") = 2
    /\ Count(log, "commandGraphByWindow") = 1
    /\ Count(log, "dirty") = 1
    /\ ~viewerDirty
    /\ \E i \in ViewFutures : futures[i].deferred /\ futures[i].resolves = 1

\* ---- C25
\* the step resolves the Future i that an addView call returned
ResolvesView(i) ==
    /\ i \in DOMAIN futures'
    /\ futures'[i].kind = "view"
    /\ futures'[i].resolves > 0
    /\ futures'[i].value # Null
    /\ i \in DOMAIN futures => futures[i].resolves = 0
\* no removeView of the view was queued to run in the same frame
NotRemovedSince(view) ==
    \A k \in DOMAIN updateOperations :
        updateOperations[k].kind = "removeView" => updateOperations[k].view # view

\* C25: when the Future returned by addView is resolved with a view, the
\* view is listed under the requested window and its render graph is a child
\* of that window's command graph, and on_create, when given, was invoked
\* once with that command graph, which is not null; also when the window
\* passed to addView has no entry in the command graph registry.
C25_ResolvedViewIsAttached ==
    [][ \A i \in DOMAIN futures' :
            ResolvesView(i) =>
                /\ futures'[i].value = futures'[i].view
                /\ NotRemovedSince(futures'[i].view) =>
                        /\ futures'[i].window \in DOMAIN displayConfiguration'
                        /\ futures'[i].view \in Range(displayConfiguration'[futures'[i].window])
                        /\ futures'[i].window \in DOMAIN commandGraphByWindow'
                        /\ futures'[i].view \in DOMAIN viewData'
                        /\ viewData'[futures'[i].view]
                             \in Range(children'[commandGraphByWindow'[futures'[i].window]])
                /\ futures'[i].onCreate =>
                        /\ futures'[i].created = 1
                        /\ futures'[i].createdWith # Null
                        /\ futures'[i].window \in DOMAIN commandGraphByWindow'
                        /\ futures'[i].createdWith
                             = commandGraphByWindow'[futures'[i].window] ]_vars

\* ---- C26
\* the step runs refreshView, inline or from the queue, only for views that
\* are not null and not attached
RefreshesUnattached ==
    /\ RefreshTakesEffect
    /\ \A v \in RefreshingViews : v # Null /\ v \notin ListedViews /\ ~Attached(v)

\* C26: refreshView of a view that is not null and not attached changes
\* nothing; it creates no bookkeeping entry for the view, so the views with a
\* bookkeeping entry remain the views listed in the Display Configuration.
C26_RefreshOfUnattachedViewIsNoOp ==
    [][ RefreshesUnattached =>
            /\ UNCHANGED << viewData, renderGraphs, children, displayConfiguration,
                            commandGraphByWindow, viewerWindows, eventHandlers >>
            /\ DOMAIN viewData = ListedViews =>
                    DOMAIN viewData' = {v \in AllViews : \E w \in DOMAIN displayConfiguration' :
                                            v \in Range(displayConfiguration'[w])} ]_vars

\* ---- C27
\* the handlers of the list that are neither manipulators nor null entries
OtherHandlers(handlers) ==
    SelectSeq(handlers, LAMBDA h : h.kind \notin {"manipulator", "null"})
CloseHandlers == SelectSeq(eventHandlers, LAMBDA h : h.kind = "close")
\* the step leaves the handlers that are not manipulators in place
KeepsOtherHandlers ==
    SelectSeq(OtherHandlers(eventHandlers'),
              LAMBDA h : h \in Range(OtherHandlers(eventHandlers)))
        = OtherHandlers(eventHandlers)

\* C27: once the viewer is realized, and after any number of rebuilds, the
\* handler list holds exactly one close-on-exit handler; a rebuild or an
\* addManipulator call leaves every handler that is not a manipulator in the
\* list, once, in the same relative order.
C27_OneCloseHandlerAndOthersKept ==
    /\ [](viewerRealized => Len(CloseHandlers) = 1)
    /\ [][KeepsOtherHandlers]_vars

====
